---- MODULE Spec2Model ----
(***************************************************************************)
(* Category-hierarchy and tagging engine of the tag manager backend        *)
(* (backend/data_store.py), driven by the request handlers of              *)
(* backend/server.py.                                                      *)
(*                                                                         *)
(* The persisted document is the pair (categories, items).  Every action   *)
(* is one engine call on the loaded document followed by the caller's      *)
(* save_state; `last` records the call (arguments, the list passed in, the *)
(* list and error returned) so that the properties of a call can be        *)
(* stated as state predicates.  A request whose save_state fails leaves    *)
(* the document as it was: that is a stuttering step of the store.         *)
(*                                                                         *)
(* categoryIds is a Python list in the source.  Every function modelled    *)
(* here reads it only through membership tests, set(), and list            *)
(* comprehensions that drop members, and the functions that rebuild it go  *)
(* through set(); it is modelled as a set.  item_ids and                   *)
(* selected_category_ids are read only through `in` and truthiness and are *)
(* modelled as sets too.                                                   *)
(***************************************************************************)
EXTENDS Naturals, Sequences, FiniteSets, TLC

VARIABLES categories, items, last, calls, walk, disk, initial, reqs, hist

vars == <<categories, items, last, calls, walk, disk, initial, reqs, hist>>

\* The state of a stepwise tree walk; the state of the document store and of
\* the requests in flight.
treeVars == <<walk>>
storeVars == <<disk, initial, reqs, hist>>

\* Number of engine calls made on the store in one run.
MaxCalls == 2

\* Python's None (a root's parentId, an absent argument, "no error").
None == "None"

\* Category ids used by the requests and the category lists.
CatIds == {"A", "B", "C"}

\* Ids of the items of the initial store: two, so that a selection can be
\* partially tagged.
ItemIds == {1, 2}

Category(id, parentId) == [id |-> id, parentId |-> parentId]

\* The category lists the store is started with: the chain A > B > C, the
\* siblings A > {B, C}, the tree A > B with C unknown to the list, and the
\* empty list.
CategoryLists ==
    { << Category("A", None), Category("B", "A"), Category("C", "B") >>,
      << Category("A", None), Category("B", "A"), Category("C", "A") >>,
      << Category("A", None), Category("B", "A") >>,
      << >> }

Range(s) == { s[k] : k \in 1..Len(s) }

-----------------------------------------------------------------------------
(* CategoryTree *)

\* next((c for c in categories if c.get('id') == current_id), None):
\* the position of the first category with that id, 0 for None.
find_category(current_id, cats) ==
    LET hits == { k \in 1..Len(cats) : cats[k].id = current_id }
    IN  IF hits = {} THEN 0
        ELSE CHOOSE k \in hits : \A j \in hits : k <= j

\* The while-loop of get_ancestor_ids.
RECURSIVE ancestor_walk(_, _, _)
ancestor_walk(ancestors, current_id, cats) ==
    LET k == find_category(current_id, cats)
    IN  IF k = 0 \/ cats[k].parentId = None
        THEN ancestors
        ELSE ancestor_walk(Append(ancestors, cats[k].parentId),
                           cats[k].parentId, cats)

get_ancestor_ids(category_id, cats) ==
    IF cats = << >> THEN << category_id >>
    ELSE ancestor_walk(<< category_id >>, category_id, cats)

\* Faulty variant: only the category and its direct parent are added.
expand_category_ids_one_level(category_ids, cats) ==
    UNION { { get_ancestor_ids(cat_id, cats)[k] :
                k \in { j \in 1..Len(get_ancestor_ids(cat_id, cats)) : j <= 2 } } :
            cat_id \in category_ids }

expand_category_ids(category_ids, cats) ==
    UNION { Range(get_ancestor_ids(cat_id, cats)) : cat_id \in category_ids }

RECURSIVE get_descendant_ids(_, _)
RECURSIVE extend_with_children(_, _, _, _)

\* for child in children: ids.extend(get_descendant_ids(child['id'], ...))
extend_with_children(ids, children, k, cats) ==
    IF k > Len(children) THEN ids
    ELSE extend_with_children(ids \o get_descendant_ids(children[k].id, cats),
                              children, k + 1, cats)

get_descendant_ids(root_id, cats) ==
    IF cats = << >> THEN << >>
    ELSE LET children == SelectSeq(cats, LAMBDA c : c.parentId = root_id)
             ids == [ k \in 1..Len(children) |-> children[k].id ]
         IN  extend_with_children(ids, children, 1, cats)

-----------------------------------------------------------------------------
(* TaggingEngine *)

Result(its, err) == [items |-> its, error |-> err]

\* Faulty variant: the remove branch as soon as one selected item holds the
\* category.
all_have_category_any(its, item_ids, category_id) ==
    \E k \in 1..Len(its) :
        its[k].id \in item_ids /\ category_id \in its[k].categoryIds

\* all(category_id in item.get('categoryIds', []) for item in selected_items)
all_have_category(its, item_ids, category_id) ==
    \A k \in 1..Len(its) :
        its[k].id \in item_ids => category_id \in its[k].categoryIds

\* Faulty variant: a parent is removed without its descendants.
categories_to_remove_self_only(category_id, cats) == { category_id }

\* Faulty variant: removing a leaf strips its ancestors too.
categories_to_remove_with_ancestors(category_id, cats) ==
    LET descendants == get_descendant_ids(category_id, cats)
    IN  IF descendants # << >>
        THEN { category_id } \cup Range(descendants)
        ELSE Range(get_ancestor_ids(category_id, cats))

categories_to_remove(category_id, cats) ==
    LET descendants == get_descendant_ids(category_id, cats)
    IN  IF descendants # << >>
        THEN { category_id } \cup Range(descendants)
        ELSE { category_id }

\* Faulty variant: a parent is added with its ancestors, like a leaf.
categories_to_add_always_ancestors(category_id, cats) ==
    get_ancestor_ids(category_id, cats)

categories_to_add(category_id, cats) ==
    LET descendants == get_descendant_ids(category_id, cats)
    IN  IF descendants # << >>
        THEN << category_id >>
        ELSE get_ancestor_ids(category_id, cats)

toggle_category_association(its, item_ids, category_id, cats) ==
    LET all_have == all_have_category(its, item_ids, category_id)
    IN  [ k \in 1..Len(its) |->
            IF its[k].id \in item_ids
            THEN [ its[k] EXCEPT !.categoryIds =
                     IF all_have
                     THEN @ \ categories_to_remove(category_id, cats)
                     ELSE @ \cup Range(categories_to_add(category_id, cats)) ]
            ELSE its[k] ]

\* Faulty variant: the category is added without its ancestors.
batch_add_tags_no_ancestors(its, item_ids, category_id, cats) ==
    [ k \in 1..Len(its) |->
        IF its[k].id \in item_ids
        THEN [ its[k] EXCEPT !.categoryIds = @ \cup { category_id } ]
        ELSE its[k] ]

batch_add_tags(its, item_ids, category_id, cats) ==
    LET category_ids_to_add ==
            IF cats # << >>
            THEN expand_category_ids({ category_id }, cats)
            ELSE { category_id }
    IN  [ k \in 1..Len(its) |->
            IF its[k].id \in item_ids
            THEN [ its[k] EXCEPT !.categoryIds = @ \cup category_ids_to_add ]
            ELSE its[k] ]

\* The description argument is left out: items carry no description here.
batch_edit(its, item_ids, category_id) ==
    [ k \in 1..Len(its) |->
        IF its[k].id \in item_ids
        THEN IF category_id # None /\ category_id \notin its[k].categoryIds
             THEN [ its[k] EXCEPT !.categoryIds = @ \cup { category_id } ]
             ELSE its[k]
        ELSE its[k] ]

batch_delete(its, item_ids) ==
    SelectSeq(its, LAMBDA item : item.id \notin item_ids)

\* The for-loop of remove_category_from_item from position k on, with its
\* early returns; `found` is item_found and `updated` is updated_items.
RECURSIVE remove_loop(_, _, _, _, _, _)
remove_loop(its, item_id, category_id, k, found, updated) ==
    IF k > Len(its)
    THEN IF ~found THEN Result(its, "NotFound") ELSE Result(updated, None)
    ELSE IF its[k].id = item_id
         THEN LET category_ids == its[k].categoryIds
                  new_category_ids == category_ids \ { category_id }
              IN  IF category_id \notin category_ids
                  THEN Result(its, "InvalidCategory")
                  ELSE IF Cardinality(new_category_ids) = 0
                       THEN Result(its, "LastCategory")
                       ELSE remove_loop(its, item_id, category_id, k + 1, TRUE,
                                Append(updated,
                                    [ its[k] EXCEPT
                                        !.categoryIds = new_category_ids ]))
         ELSE remove_loop(its, item_id, category_id, k + 1, found,
                          Append(updated, its[k]))

\* Faulty variant: the last category of an item can be removed.
remove_category_from_item_no_last_check(its, item_id, category_id) ==
    LET hit == { k \in 1..Len(its) : its[k].id = item_id }
    IN  IF hit = {} THEN Result(its, "NotFound")
        ELSE IF \E k \in hit : category_id \notin its[k].categoryIds
             THEN Result(its, "InvalidCategory")
             ELSE Result([ k \in 1..Len(its) |->
                            IF k \in hit
                            THEN [ its[k] EXCEPT
                                     !.categoryIds = @ \ { category_id } ]
                            ELSE its[k] ], None)

\* Errors are named by kind: NotFound is "条目不存在", InvalidCategory is
\* "条目不包含分类ID", LastCategory is "条目至少需要一个分类...".
remove_category_from_item(its, item_id, category_id) ==
    remove_loop(its, item_id, category_id, 1, FALSE, << >>)

\* new_category_ids of batch_remove_categories for one item.
remaining_category_ids(item, to_remove) ==
    item.categoryIds \ to_remove

\* Faulty variant: every selected item counts as modified.
modified_count_all_selected(its, item_ids, to_remove) ==
    Cardinality({ k \in 1..Len(its) : its[k].id \in item_ids })

\* modified_count at the end of the loop of batch_remove_categories.
modified_count(its, item_ids, to_remove) ==
    Cardinality({ k \in 1..Len(its) :
        /\ its[k].id \in item_ids
        /\ Cardinality(remaining_category_ids(its[k], to_remove)) # 0
        /\ Cardinality(remaining_category_ids(its[k], to_remove))
             # Cardinality(its[k].categoryIds) })

\* Faulty variant: an item left without categories is not skipped.
batch_remove_updated_no_skip(its, item_ids, to_remove) ==
    [ k \in 1..Len(its) |->
        IF its[k].id \in item_ids
        THEN [ its[k] EXCEPT !.categoryIds =
                 remaining_category_ids(its[k], to_remove) ]
        ELSE its[k] ]

\* updated_items at the end of the loop of batch_remove_categories.
batch_remove_updated(its, item_ids, to_remove) ==
    [ k \in 1..Len(its) |->
        IF its[k].id \in item_ids
        THEN IF Cardinality(remaining_category_ids(its[k], to_remove)) = 0
             THEN its[k]
             ELSE [ its[k] EXCEPT !.categoryIds =
                      remaining_category_ids(its[k], to_remove) ]
        ELSE its[k] ]

\* MissingInput is "未提供条目ID" / "未提供分类ID", NoEffect is "没有条目被修改...".
batch_remove_categories(its, item_ids, category_ids) ==
    IF item_ids = {} THEN Result(its, "MissingInput")
    ELSE IF category_ids = {} THEN Result(its, "MissingInput")
    ELSE IF modified_count(its, item_ids, category_ids) = 0
         THEN Result(its, "NoEffect")
         ELSE Result(batch_remove_updated(its, item_ids, category_ids), None)

-----------------------------------------------------------------------------
(* ItemFilter *)

\* Faulty variant: a filter id matches only itself.
valid_branch_ids_no_descendants(filter_id, cats) == { filter_id }

\* set([filter_id] + get_descendant_ids(filter_id, categories))
valid_branch_ids(filter_id, cats) ==
    { filter_id } \cup Range(get_descendant_ids(filter_id, cats))

\* The category step of filter_items (search_query absent).
filter_items(its, cats, selected_category_ids) ==
    IF selected_category_ids # {}
    THEN SelectSeq(its, LAMBDA item :
            /\ item.categoryIds # {}
            /\ \A filter_id \in selected_category_ids :
                 \E cid \in item.categoryIds :
                    cid \in valid_branch_ids(filter_id, cats))
    ELSE its

-----------------------------------------------------------------------------
(* The store and the calls on it *)

\* The record of a call: its arguments, the item list passed in (before),
\* the item list and the error returned (out, error), the branch a toggle
\* took, and, when the call repeats the toggle made just before it (repeat),
\* the item list that first toggle was given (orig).
Call(op, ids, cid, cids, before, out, err, branch, repeat, orig) ==
    [ op |-> op, itemIds |-> ids, categoryId |-> cid,
      categoryIds |-> cids, before |-> before, out |-> out,
      error |-> err, branch |-> branch, repeat |-> repeat, orig |-> orig ]

\* No walk is in progress; no request is in flight.
IdleTree == walk = None

IdleStore == disk = None /\ initial = None /\ reqs = None /\ hist = None

Init ==
    /\ categories \in CategoryLists
    /\ items \in [ ItemIds -> { [id |-> i, categoryIds |-> cs] :
                                  i \in ItemIds, cs \in (SUBSET CatIds) \ {{}} } ]
    /\ \A k \in ItemIds : items[k].id = k
    /\ last = Call("init", {}, None, {}, items, items, None, None, FALSE,
                   << >>)
    /\ calls = 0
    /\ IdleTree
    /\ IdleStore

\* POST /api/items/toggle-category
ToggleCategory ==
    /\ calls < MaxCalls
    /\ \E item_ids \in SUBSET ItemIds, category_id \in CatIds :
        LET out == toggle_category_association(items, item_ids, category_id,
                                               categories)
            repeat == /\ last.op = "toggle"
                      /\ last.itemIds = item_ids
                      /\ last.categoryId = category_id
        IN  /\ items' = out
            /\ last' = Call("toggle", item_ids, category_id, {}, items, out,
                            None,
                            IF all_have_category(items, item_ids, category_id)
                            THEN "remove" ELSE "add",
                            repeat,
                            IF repeat THEN last.before ELSE << >>)
            /\ calls' = calls + 1
            /\ UNCHANGED <<categories, treeVars, storeVars>>

\* POST /api/batch/add-tags
AddTags ==
    /\ calls < MaxCalls
    /\ \E item_ids \in SUBSET ItemIds, category_id \in CatIds :
        LET out == batch_add_tags(items, item_ids, category_id, categories)
        IN  /\ items' = out
            /\ last' = Call("addTags", item_ids, category_id, {}, items, out,
                            None, None, FALSE, << >>)
            /\ calls' = calls + 1
            /\ UNCHANGED <<categories, treeVars, storeVars>>

\* POST /api/batch/edit
BatchEdit ==
    /\ calls < MaxCalls
    /\ \E item_ids \in SUBSET ItemIds, category_id \in CatIds \cup { None } :
        LET out == batch_edit(items, item_ids, category_id)
        IN  /\ items' = out
            /\ last' = Call("batchEdit", item_ids, category_id, {}, items, out,
                            None, None, FALSE, << >>)
            /\ calls' = calls + 1
            /\ UNCHANGED <<categories, treeVars, storeVars>>

\* POST /api/batch/delete
BatchDelete ==
    /\ calls < MaxCalls
    /\ \E item_ids \in SUBSET ItemIds :
        LET out == batch_delete(items, item_ids)
        IN  /\ items' = out
            /\ last' = Call("batchDelete", item_ids, None, {}, items, out,
                            None, None, FALSE, << >>)
            /\ calls' = calls + 1
            /\ UNCHANGED <<categories, treeVars, storeVars>>

\* PUT /api/items/<id>/remove-category
RemoveCategoryFromItem ==
    /\ calls < MaxCalls
    /\ \E item_id \in ItemIds, category_id \in CatIds :
        LET r == remove_category_from_item(items, item_id, category_id)
        IN  /\ items' = IF r.error = None THEN r.items ELSE items
            /\ last' = Call("removeCategory", { item_id }, category_id, {},
                            items, r.items, r.error, None, FALSE, << >>)
            /\ calls' = calls + 1
            /\ UNCHANGED <<categories, treeVars, storeVars>>

\* POST /api/batch/remove-categories
BatchRemoveCategories ==
    /\ calls < MaxCalls
    /\ \E item_ids \in SUBSET ItemIds, category_ids \in SUBSET CatIds :
        LET r == batch_remove_categories(items, item_ids, category_ids)
        IN  /\ items' = IF r.error = None THEN r.items ELSE items
            /\ last' = Call("batchRemove", item_ids, None, category_ids,
                            items, r.items, r.error, None, FALSE, << >>)
            /\ calls' = calls + 1
            /\ UNCHANGED <<categories, treeVars, storeVars>>

\* GET /api/items?categories=...
FilterItems ==
    /\ calls < MaxCalls
    /\ \E selected_category_ids \in SUBSET CatIds :
        /\ last' = Call("filter", {}, None, selected_category_ids, items,
                        filter_items(items, categories, selected_category_ids),
                        None, None, FALSE, << >>)
        /\ calls' = calls + 1
        /\ UNCHANGED <<categories, items, treeVars, storeVars>>

Next ==
    \/ ToggleCategory
    \/ AddTags
    \/ BatchEdit
    \/ BatchDelete
    \/ RemoveCategoryFromItem
    \/ BatchRemoveCategories
    \/ FilterItems

Spec == Init /\ [][Next]_vars

-----------------------------------------------------------------------------
(* The category tree as a relation, for stating the properties *)

\* S with the parents of its members, n times over.
RECURSIVE UpTo(_, _, _)
UpTo(S, n, cats) ==
    IF n = 0 THEN S
    ELSE UpTo(S \cup { cats[k].parentId :
                        k \in { j \in 1..Len(cats) :
                                  cats[j].id \in S /\ cats[j].parentId # None } },
              n - 1, cats)

\* c and everything reached from c by parentId links.
AncestorsOf(c, cats) == UpTo({ c }, Len(cats), cats)

\* The categories other than c whose parentId links reach c.
DescendantsOf(c, cats) ==
    { cats[k].id : k \in { j \in 1..Len(cats) :
                             cats[j].id # c /\ c \in AncestorsOf(cats[j].id, cats) } }

\* Positions of the items the last call selected.
Selected == { k \in 1..Len(last.before) : last.before[k].id \in last.itemIds }

Chain == << Category("A", None), Category("B", "A"), Category("C", "B") >>

-----------------------------------------------------------------------------
(* Properties *)

\* C1: every item in the store has at least one category, whatever mutation
\* operations have been applied.
C1_EveryItemKeepsACategory ==
    \A k \in 1..Len(items) : items[k].categoryIds # {}

\* C2: a toggle takes the remove branch iff every selected item holds the
\* category, applies that one branch to every selected item (so after the add
\* branch every selected item holds the category), and returns the other
\* items unchanged.
C2_ToggleDecidesOnce ==
    last.op = "toggle" =>
        LET c == last.categoryId
            allHave == \A k \in Selected : c \in last.before[k].categoryIds
        IN  /\ (last.branch = "remove") <=> allHave
            /\ Len(last.out) = Len(last.before)
            /\ allHave =>
                 \E R \in SUBSET CatIds :
                    /\ c \in R
                    /\ \A k \in Selected :
                         last.out[k].categoryIds = last.before[k].categoryIds \ R
            /\ ~allHave =>
                 \E S \in SUBSET CatIds :
                    /\ c \in S
                    /\ \A k \in Selected :
                         last.out[k].categoryIds
                           = last.before[k].categoryIds \cup S
            /\ \A k \in (1..Len(last.before)) \ Selected :
                 last.out[k] = last.before[k]

\* A toggle on a selection in which one item holds the category and another
\* does not.
C2_Witness ==
    /\ last.op = "toggle"
    /\ last.branch = "add"
    /\ \E j, k \in Selected :
         /\ last.categoryId \in last.before[j].categoryIds
         /\ last.categoryId \notin last.before[k].categoryIds
         /\ last.categoryId \in last.out[k].categoryIds

\* C3: in the remove branch every selected item loses exactly the category
\* and its descendants (only the category when it is a leaf) and keeps the
\* rest, ancestors included.
C3_RemoveBranch ==
    (last.op = "toggle" /\ last.branch = "remove") =>
        \A k \in Selected :
            last.out[k].categoryIds
              = last.before[k].categoryIds
                  \ ({ last.categoryId }
                       \cup DescendantsOf(last.categoryId, categories))

\* Tree A > B > C, an item holding {C, B, A}: toggling A leaves it empty.
C3_Witness ==
    /\ categories = Chain
    /\ last.op = "toggle"
    /\ last.branch = "remove"
    /\ last.categoryId = "A"
    /\ \E k \in Selected :
         /\ last.before[k].categoryIds = { "A", "B", "C" }
         /\ last.out[k].categoryIds = {}

\* C4: in the add branch every selected item gains only the category when
\* the category has descendants, and the category with all its ancestors
\* when it is a leaf.
C4_AddBranch ==
    (last.op = "toggle" /\ last.branch = "add") =>
        \A k \in Selected :
            last.out[k].categoryIds
              = last.before[k].categoryIds
                  \cup (IF DescendantsOf(last.categoryId, categories) # {}
                        THEN { last.categoryId }
                        ELSE AncestorsOf(last.categoryId, categories))

\* Tree A > B > C, an item holding {A}: toggling C gives {A, B, C}.
C4_Witness ==
    /\ categories = Chain
    /\ last.op = "toggle"
    /\ last.branch = "add"
    /\ last.categoryId = "C"
    /\ \E k \in Selected :
         /\ last.before[k].categoryIds = { "A" }
         /\ last.out[k].categoryIds = { "A", "B", "C" }

\* C5: removeCategoryFromItem fails with NotFound, InvalidCategory or
\* LastCategory in the three cases named, returns the input list with every
\* error, and on success changes only the target item, which loses exactly
\* the category.
C5_RemoveCategoryFromItem ==
    last.op = "removeCategory" =>
        \A item_id \in last.itemIds :
            LET c == last.categoryId
                hit == { k \in 1..Len(last.before) :
                           last.before[k].id = item_id }
            IN  /\ hit = {} => last.error = "NotFound"
                /\ \A k \in hit :
                     /\ c \notin last.before[k].categoryIds
                          => last.error = "InvalidCategory"
                     /\ last.before[k].categoryIds = { c }
                          => last.error = "LastCategory"
                     /\ (c \in last.before[k].categoryIds
                           /\ last.before[k].categoryIds # { c })
                          => last.error = None
                /\ last.error # None => last.out = last.before
                /\ last.error = None =>
                     /\ Len(last.out) = Len(last.before)
                     /\ \A k \in 1..Len(last.before) :
                          IF k \in hit
                          THEN /\ c \in last.before[k].categoryIds
                               /\ last.out[k]
                                    = [ last.before[k] EXCEPT
                                          !.categoryIds = @ \ { c } ]
                          ELSE last.out[k] = last.before[k]

\* The only category of an item is asked to be removed.
C5_Witness ==
    /\ last.op = "removeCategory"
    /\ last.error = "LastCategory"
    /\ last.out = last.before
    /\ \E k \in Selected : last.before[k].categoryIds = { last.categoryId }

\* C6: a successful batchRemoveCategories gives each selected item its
\* categories minus the given ones when that is not empty, returns a selected
\* item that would be left empty as it was, and returns unselected items
\* unchanged.
C6_BatchRemoveSkipsEmptied ==
    (last.op = "batchRemove" /\ last.error = None) =>
        /\ Len(last.out) = Len(last.before)
        /\ \A k \in 1..Len(last.before) :
             LET rest == last.before[k].categoryIds \ last.categoryIds
             IN  IF k \in Selected /\ rest # {}
                 THEN last.out[k]
                        = [ last.before[k] EXCEPT !.categoryIds = rest ]
                 ELSE last.out[k] = last.before[k]

\* A successful batch in which one selected item is skipped and another is
\* modified.
C6_Witness ==
    /\ last.op = "batchRemove"
    /\ last.error = None
    /\ \E j, k \in Selected :
         /\ last.before[j].categoryIds # {}
         /\ last.before[j].categoryIds \ last.categoryIds = {}
         /\ last.out[j] = last.before[j]
         /\ last.out[k] # last.before[k]

\* C7: batchRemoveCategories returns MissingInput when either id list is
\* empty, otherwise NoEffect iff no item would be modified, and returns the
\* input list with both errors.
C7_BatchRemoveErrors ==
    last.op = "batchRemove" =>
        LET modifiable ==
                { k \in Selected :
                    /\ last.before[k].categoryIds \cap last.categoryIds # {}
                    /\ last.before[k].categoryIds \ last.categoryIds # {} }
        IN  /\ (last.itemIds = {} \/ last.categoryIds = {})
                 => last.error = "MissingInput"
            /\ (last.itemIds # {} /\ last.categoryIds # {})
                 => ((last.error = "NoEffect") <=> (modifiable = {}))
            /\ last.error \in { "MissingInput", "NoEffect", None }
            /\ last.error # None => last.out = last.before

\* Every candidate item would have been left empty: NoEffect.
C7_Witness ==
    /\ last.op = "batchRemove"
    /\ last.error = "NoEffect"
    /\ Selected # {}
    /\ \A k \in Selected :
         /\ last.before[k].categoryIds # {}
         /\ last.before[k].categoryIds \ last.categoryIds = {}

\* C8: addTags gives every selected item its categories united with the
\* category and all its ancestors, returns the other items unchanged, and
\* applied again to its own result changes nothing.
C8_AddTags ==
    last.op = "addTags" =>
        /\ Len(last.out) = Len(last.before)
        /\ \A k \in 1..Len(last.before) :
             IF k \in Selected
             THEN last.out[k]
                    = [ last.before[k] EXCEPT !.categoryIds =
                          @ \cup AncestorsOf(last.categoryId, categories) ]
             ELSE last.out[k] = last.before[k]
        /\ batch_add_tags(last.out, last.itemIds, last.categoryId, categories)
             = last.out

\* A selected item gains an ancestor it did not hold.
C8_Witness ==
    /\ last.op = "addTags"
    /\ \E k \in Selected :
         \E a \in AncestorsOf(last.categoryId, categories) :
            /\ a # last.categoryId
            /\ a \notin last.before[k].categoryIds
            /\ a \in last.out[k].categoryIds

\* C9: with a non-empty filter set, filter returns, in input order, exactly
\* the items that for every filter id hold that id or one of its
\* descendants; an item without categories never matches.
C9_FilterByCategory ==
    (last.op = "filter" /\ last.categoryIds # {}) =>
        /\ last.out
             = SelectSeq(last.before, LAMBDA item :
                 \A f \in last.categoryIds :
                    item.categoryIds
                      \cap ({ f } \cup DescendantsOf(f, categories)) # {})
        /\ \A k \in 1..Len(last.out) : last.out[k].categoryIds # {}

\* Tree A > B > C, filter {B}: the item tagged only C is kept, the item
\* tagged only A is dropped.
C9_Witness ==
    /\ categories = Chain
    /\ last.op = "filter"
    /\ last.categoryIds = { "B" }
    /\ Len(last.before) = 2
    /\ last.before[1].categoryIds = { "A" }
    /\ last.before[2].categoryIds = { "C" }
    /\ last.out = << last.before[2] >>

\* C10 as stated: toggling a category without descendants twice in
\* succession on the same selection returns every selected item's categories
\* to what they were.
C10_ToggleTwiceRestores ==
    (last.op = "toggle" /\ last.repeat
       /\ DescendantsOf(last.categoryId, categories) = {}) =>
        \A k \in Selected : last.out[k].categoryIds = last.orig[k].categoryIds

\* C10 as amended: it does so when, besides, the selected items at first all
\* hold the category or all lack it, and each holds every proper ancestor of
\* the category.
C10_ToggleTwiceRestoresUniform ==
    (last.op = "toggle" /\ last.repeat
       /\ DescendantsOf(last.categoryId, categories) = {}
       /\ (\/ \A k \in Selected : last.categoryId \in last.orig[k].categoryIds
           \/ \A k \in Selected : last.categoryId \notin last.orig[k].categoryIds)
       /\ \A k \in Selected :
            AncestorsOf(last.categoryId, categories) \ { last.categoryId }
              \subseteq last.orig[k].categoryIds) =>
        \A k \in Selected : last.out[k].categoryIds = last.orig[k].categoryIds

\* The second of two toggles of leaf C of A > B > C on two items that hold
\* A and B and not C: the first added C, the second removed it.
C10_Witness ==
    /\ categories = Chain
    /\ last.op = "toggle"
    /\ last.repeat
    /\ last.categoryId = "C"
    /\ last.branch = "remove"
    /\ Cardinality(Selected) = 2
    /\ \A k \in Selected :
         /\ last.orig[k].categoryIds = { "A", "B" }
         /\ last.before[k].categoryIds = { "A", "B", "C" }
         /\ last.out[k].categoryIds = { "A", "B" }

-----------------------------------------------------------------------------
(* The tree walks, step by step, on arbitrary parent graphs *)

\* Cap on the number of categories a walk visits before the model stops
\* following it (a walk on a cyclic graph has no end).
MaxVisits == 5

\* Ids a walk is started from and parentId values: A, B, C are in the list,
\* Z is not.
WalkIds == { "A", "B", "C", "Z" }

\* Every parent graph on the categories A, B, C, cyclic ones and ones with a
\* parentId that names no category included, and the empty list.
TreeLists ==
    { << Category("A", pa), Category("B", pb), Category("C", pc) >> :
        pa \in WalkIds \cup { None }, pb \in WalkIds \cup { None },
        pc \in WalkIds \cup { None } } \cup { << >> }

\* kind: which function runs; start: its argument; pc: "run" or "done";
\* visited: the ids looked at so far, in order (for the ancestor walk this is
\* the list `ancestors`, whose last element is current_id; for the descendant
\* walk the root_id of every call made); stack: root_ids of the calls still to
\* be made; input, result: argument and result of expand_category_ids and ids
\* collected by the descendant walk.
Walk(kind, start, pc, visited, stack, input, result) ==
    [ kind |-> kind, start |-> start, pc |-> pc, visited |-> visited,
      stack |-> stack, input |-> input, result |-> result ]

\* get_ancestor_ids up to the loop.
ancestor_start(category_id, cats) ==
    IF cats = << >>
    THEN Walk("ancestors", category_id, "done", << category_id >>, << >>, {}, {})
    ELSE Walk("ancestors", category_id, "run", << category_id >>, << >>, {}, {})

\* Faulty variant: one parent is looked up and the walk ends.
ancestor_step_once(w, cats) ==
    LET current_id == w.visited[Len(w.visited)]
        k == find_category(current_id, cats)
    IN  IF k = 0 \/ cats[k].parentId = None
        THEN [ w EXCEPT !.pc = "done" ]
        ELSE [ w EXCEPT !.pc = "done",
                        !.visited = Append(@, cats[k].parentId) ]

\* One iteration of the while-loop of get_ancestor_ids.
ancestor_step(w, cats) ==
    LET current_id == w.visited[Len(w.visited)]
        k == find_category(current_id, cats)
    IN  IF k = 0 \/ cats[k].parentId = None
        THEN [ w EXCEPT !.pc = "done" ]
        ELSE [ w EXCEPT !.visited = Append(@, cats[k].parentId) ]

\* get_descendant_ids up to its first call's body.
descendant_start(root_id, cats) ==
    IF cats = << >>
    THEN Walk("descendants", root_id, "done", << >>, << >>, {}, {})
    ELSE Walk("descendants", root_id, "run", << >>, << root_id >>, {}, {})

\* One call of get_descendant_ids: the children of its root_id are collected
\* and a call for each of them, in list order, is made before the calls that
\* were already waiting.
descendant_step(w, cats) ==
    LET root_id == Head(w.stack)
        children == SelectSeq(cats, LAMBDA c : c.parentId = root_id)
        ids == [ k \in 1..Len(children) |-> children[k].id ]
        stack == ids \o Tail(w.stack)
    IN  [ w EXCEPT !.visited = Append(@, root_id),
                   !.stack = stack,
                   !.result = @ \cup Range(ids),
                   !.pc = IF stack = << >> THEN "done" ELSE "run" ]

\* The parent of c in the list, None for a root and for an id not in it.
ParentOf(c, cats) ==
    LET hits == { k \in 1..Len(cats) : cats[k].id = c }
    IN  IF hits = {} THEN None ELSE cats[CHOOSE k \in hits : TRUE].parentId

\* No category is reached from its own parent by parentId links.
Acyclic(cats) ==
    \A k \in 1..Len(cats) :
        cats[k].parentId # None
          => cats[k].id \notin AncestorsOf(cats[k].parentId, cats)

InitTree ==
    /\ categories \in TreeLists
    /\ items = << >>
    /\ last = None
    /\ calls = 0
    /\ walk = Walk("none", None, "done", << >>, << >>, {}, {})
    /\ IdleStore

StartAncestors ==
    /\ walk.pc = "done"
    /\ walk.kind = "none"
    /\ \E category_id \in WalkIds :
         walk' = ancestor_start(category_id, categories)
    /\ UNCHANGED <<categories, items, last, calls, storeVars>>

AncestorStep ==
    /\ walk.kind = "ancestors"
    /\ walk.pc = "run"
    /\ Len(walk.visited) < MaxVisits
    /\ walk' = ancestor_step(walk, categories)
    /\ UNCHANGED <<categories, items, last, calls, storeVars>>

StartDescendants ==
    /\ walk.pc = "done"
    /\ walk.kind = "none"
    /\ \E root_id \in WalkIds :
         walk' = descendant_start(root_id, categories)
    /\ UNCHANGED <<categories, items, last, calls, storeVars>>

DescendantStep ==
    /\ walk.kind = "descendants"
    /\ walk.pc = "run"
    /\ Len(walk.visited) < MaxVisits
    /\ walk' = descendant_step(walk, categories)
    /\ UNCHANGED <<categories, items, last, calls, storeVars>>

\* expand_category_ids on a list on which get_ancestor_ids returns.
Expand ==
    /\ walk.pc = "done"
    /\ walk.kind = "none"
    /\ Acyclic(categories)
    /\ \E category_ids \in SUBSET WalkIds :
         walk' = Walk("expand", None, "done", << >>, << >>, category_ids,
                      expand_category_ids(category_ids, categories))
    /\ UNCHANGED <<categories, items, last, calls, storeVars>>

NextTree ==
    \/ StartAncestors
    \/ AncestorStep
    \/ StartDescendants
    \/ DescendantStep
    \/ Expand

SpecTree == InitTree /\ [][NextTree]_vars

\* C11: on any parent graph, cyclic or with a missing parent, the ancestor
\* walk and the descendant walk look at each category at most once.
C11_WalksVisitEachCategoryOnce ==
    walk.kind \in { "ancestors", "descendants" } =>
        \A i, j \in 1..Len(walk.visited) :
            i # j => walk.visited[i] # walk.visited[j]

\* C12: on an acyclic list the ancestor walk ends within one step per
\* category, its chain starts with the id asked for and follows the parentId
\* links in order, the last element of the finished chain has no parent in
\* the list, and the chain of an id that is not in the list is that id alone.
C12_AncestorChain ==
    (walk.kind = "ancestors" /\ Acyclic(categories)) =>
        LET chain == walk.visited
            ids == { categories[k].id : k \in 1..Len(categories) }
        IN  /\ Len(chain) <= Len(categories) + 1
            /\ Len(chain) < MaxVisits
            /\ chain[1] = walk.start
            /\ \A i \in 1..(Len(chain) - 1) :
                 chain[i + 1] = ParentOf(chain[i], categories)
            /\ walk.pc = "done" =>
                 /\ ParentOf(chain[Len(chain)], categories) = None
                 /\ walk.start \notin ids => chain = << walk.start >>
                 /\ chain = get_ancestor_ids(walk.start, categories)

\* The chain of C in A > B > C is complete.
C12_Witness ==
    /\ walk.kind = "ancestors"
    /\ walk.pc = "done"
    /\ Acyclic(categories)
    /\ walk.visited = << "C", "B", "A" >>

\* C14: on an acyclic list expandWithAncestors applied to its own result
\* returns that result, and the result contains the ids given.
C14_ExpandIdempotent ==
    walk.kind = "expand" =>
        /\ expand_category_ids(walk.result, categories) = walk.result
        /\ walk.input \subseteq walk.result

\* An expansion that added an ancestor.
C14_Witness ==
    /\ walk.kind = "expand"
    /\ Acyclic(categories)
    /\ walk.input = { "C" }
    /\ walk.result = { "A", "B", "C" }

-----------------------------------------------------------------------------
(* NameValidator and the requests that create and update items *)

\* Names (content of a text or url item, fileName of a file): the empty
\* string, a blank one and two proper ones.
Names == { "", " ", "a", "b" }

Types == { "text", "url", "file", "image" }

\* str.strip() on the names above.
strip(name) == IF name = " " THEN "" ELSE name

\* An item or a request body is a dict: a record that has the keys it was
\* given.  dict.get(key) is None for a key it lacks, dict.get(key, '') is ''.
get(dict, key) == IF key \in DOMAIN dict THEN dict[key] ELSE None

get_or_empty(dict, key) == IF key \in DOMAIN dict THEN dict[key] ELSE ""

\* The exclude_id of a call that gives none, and no item's id.
NoId == 0

\* Faulty variant: the item being edited is not skipped.
validate_item_name_no_exclude(its, item_name, item_type, exclude_id) ==
    IF item_name = "" \/ strip(item_name) = "" THEN "EmptyName"
    ELSE IF item_type \in { "text", "url" }
         THEN IF \E k \in 1..Len(its) :
                    /\ get(its[k], "type") \in { "text", "url" }
                    /\ get(its[k], "content") = item_name
              THEN "DuplicateName" ELSE None
         ELSE IF \E k \in 1..Len(its) :
                    /\ get(its[k], "type") = item_type
                    /\ get(its[k], "fileName") = item_name
              THEN "DuplicateFile" ELSE None

\* EmptyName is "名称不能为空", DuplicateName is "已存在同名条目...",
\* DuplicateFile is "已存在同名文件...".  The loop returns at the first
\* collision; which message it returns depends on item_type alone.
validate_item_name(its, item_name, item_type, exclude_id) ==
    IF item_name = "" \/ strip(item_name) = "" THEN "EmptyName"
    ELSE IF item_type \in { "text", "url" }
         THEN IF \E k \in 1..Len(its) :
                    /\ ~(exclude_id # NoId /\ its[k].id = exclude_id)
                    /\ get(its[k], "type") \in { "text", "url" }
                    /\ get(its[k], "content") = item_name
              THEN "DuplicateName" ELSE None
         ELSE IF \E k \in 1..Len(its) :
                    /\ ~(exclude_id # NoId /\ its[k].id = exclude_id)
                    /\ get(its[k], "type") = item_type
                    /\ get(its[k], "fileName") = item_name
              THEN "DuplicateFile" ELSE None

\* The name a handler validates: content for text and url, else fileName.
body_name(body) ==
    IF get(body, "type") \in { "text", "url" }
    THEN get_or_empty(body, "content")
    ELSE get_or_empty(body, "fileName")

\* body['categoryIds'] after the handlers' expansion step.
expanded_body(body, cats) ==
    IF "categoryIds" \in DOMAIN body /\ body.categoryIds # {}
    THEN [ body EXCEPT !.categoryIds = expand_category_ids(@, cats) ]
    ELSE body

\* {**item, **body}: the keys of the body replace those of the item.
merge(item, body) == body @@ item

\* The key a client puts the name of an item under: content for a text or
\* url item, fileName for anything else.
Named(type, name) ==
    IF type \in { "text", "url" }
    THEN [ content |-> name ]
    ELSE [ fileName |-> name ]

\* The body of a request that creates an item.
Body(id, type, name, categoryIds) ==
    [ id |-> id, type |-> type, categoryIds |-> categoryIds ]
        @@ Named(type, name)

\* The body of a request that renames an item; type None is a body
\* without the key.
UpdateBody(type, name) ==
    IF type = None THEN Named(type, name)
    ELSE [ type |-> type ] @@ Named(type, name)

\* An id the client generates for a new item.
fresh_id(its) ==
    CHOOSE n \in 1..(Len(its) + 1) : \A k \in 1..Len(its) : its[k].id # n

\* An id in a request path that names no item.
NoSuchId == 9

\* The record of a request on items: the name, type and exclude_id given to
\* validate_item_name and what it returned (validation), the item list
\* loaded (before) and saved (out; before when nothing was saved), and the
\* response (status).
NameCall(op, id, type, name, exclude, before, out, validation, status) ==
    [ op |-> op, itemId |-> id, type |-> type, name |-> name,
      excludeId |-> exclude, before |-> before, out |-> out,
      validation |-> validation, status |-> status ]

\* POST /api/items
CreateItem ==
    /\ calls < MaxCalls
    /\ \E type \in Types, name \in Names, category_ids \in { {}, { "C" } } :
        LET body == Body(fresh_id(items), type, name, category_ids)
            error_msg == validate_item_name(items, body_name(body), type, NoId)
            out == << expanded_body(body, categories) >> \o items
        IN  /\ items' = IF error_msg # None THEN items ELSE out
            /\ last' = NameCall("createItem", body.id, type, body_name(body),
                                NoId, items,
                                IF error_msg # None THEN items ELSE out,
                                error_msg,
                                IF error_msg # None THEN 400 ELSE 201)
    /\ calls' = calls + 1
    /\ UNCHANGED <<categories, treeVars, storeVars>>

\* POST /api/upload
UploadItem ==
    /\ calls < MaxCalls
    /\ \E type \in { "file", "image" }, name \in { "a", "b" } :
        LET body == Body(fresh_id(items), type, name, { "C" })
            out == << expanded_body(body, categories) >> \o items
        IN  /\ items' = out
            /\ last' = NameCall("upload", body.id, type, name, NoId, items,
                                out, None, 201)
    /\ calls' = calls + 1
    /\ UNCHANGED <<categories, treeVars, storeVars>>

\* The list after the replace-by-id loop of PUT /api/items/<id>.
update_item(its, item_id, body) ==
    LET k == CHOOSE j \in 0..Len(its) :
                 /\ j # 0 => its[j].id = item_id
                 /\ \A i \in 1..Len(its) : its[i].id = item_id => (j # 0 /\ j <= i)
    IN  IF k = 0 THEN its ELSE [ its EXCEPT ![k] = merge(its[k], body) ]

\* PUT /api/items/<id>; the body may leave out its type.
UpdateItem ==
    /\ calls < MaxCalls
    /\ \E item_id \in { items[k].id : k \in 1..Len(items) } \cup { NoSuchId },
          type \in Types \cup { None }, name \in { " ", "a", "b" } :
        LET body == UpdateBody(type, name)
            error_msg == validate_item_name(items, body_name(body), type,
                                            item_id)
            updated == \E k \in 1..Len(items) : items[k].id = item_id
            out == update_item(items, item_id, expanded_body(body, categories))
        IN  /\ items' = IF error_msg # None THEN items ELSE out
            /\ last' = NameCall("updateItem", item_id, type, body_name(body),
                                item_id, items,
                                IF error_msg # None THEN items ELSE out,
                                error_msg,
                                IF error_msg # None THEN 400
                                ELSE IF updated THEN 200 ELSE 404)
    /\ calls' = calls + 1
    /\ UNCHANGED <<categories, treeVars, storeVars>>

\* Stores of two items, the first named "a" and the second "b".
InitNames ==
    /\ categories = Chain
    /\ \E t1 \in Types, t2 \in Types :
         items = << Body(1, t1, "a", { "A" }), Body(2, t2, "b", { "A" }) >>
    /\ last = NameCall("init", NoId, None, None, NoId, items, items, None, 200)
    /\ calls = 0
    /\ IdleTree
    /\ IdleStore

NextNames ==
    \/ CreateItem
    \/ UploadItem
    \/ UpdateItem

SpecNames == InitNames /\ [][NextNames]_vars

\* Two items the validator takes for duplicates of each other.
DuplicatePair(a, b) ==
    \/ /\ a.type \in { "text", "url" }
       /\ b.type \in { "text", "url" }
       /\ "content" \in DOMAIN a
       /\ "content" \in DOMAIN b
       /\ a.content = b.content
    \/ /\ a.type \notin { "text", "url" }
       /\ a.type = b.type
       /\ "fileName" \in DOMAIN a
       /\ "fileName" \in DOMAIN b
       /\ a.fileName = b.fileName

\* C13: validateName returns EmptyName for a blank name; otherwise a
\* duplicate error iff an item other than the excluded one collides: for
\* text and url, an item of type text or url with the same content; for any
\* other type, an item of that type with the same fileName.
C13_ValidateName ==
    last.op \in { "createItem", "updateItem" } =>
        LET others == { k \in 1..Len(last.before) :
                          last.before[k].id # last.excludeId }
            collides(k) ==
                IF last.type \in { "text", "url" }
                THEN /\ last.before[k].type \in { "text", "url" }
                     /\ "content" \in DOMAIN last.before[k]
                     /\ last.before[k].content = last.name
                ELSE /\ last.before[k].type = last.type
                     /\ "fileName" \in DOMAIN last.before[k]
                     /\ last.before[k].fileName = last.name
        IN  IF last.name \in { "", " " }
            THEN last.validation = "EmptyName"
            ELSE /\ last.validation \in { "DuplicateName", "DuplicateFile", None }
                 /\ (last.validation # None) <=> (\E k \in others : collides(k))

\* An item is saved under the name it already has: only the item itself
\* collides, and it is excluded.
C13_Witness ==
    /\ last.op = "updateItem"
    /\ last.validation = None
    /\ last.status = 200
    /\ \E k \in 1..Len(last.before) :
         /\ last.before[k].id = last.excludeId
         /\ last.before[k].type = last.type
         /\ last.type = "file"
         /\ "fileName" \in DOMAIN last.before[k]
         /\ last.before[k].fileName = last.name

\* C16: the store never holds two distinct items that the validator takes
\* for duplicates, whatever items have been created, uploaded and updated,
\* and a rejected request leaves the store as it was.
C16_NoDuplicateNames ==
    /\ \A i, j \in 1..Len(items) :
         i # j => ~DuplicatePair(items[i], items[j])
    /\ (last.op \in { "createItem", "updateItem" } /\ last.status = 400)
         => items = last.before

-----------------------------------------------------------------------------
(* The whole document: item requests and category requests together *)

\* The document a handler loads and saves.
State(cats, its) == [ categories |-> cats, items |-> its ]

\* Ids a client gives to new categories.
NewCatIds == { "D", "E", "F" }

\* The ids a client may still give to a new category.
fresh_category_ids(cats) ==
    { c \in NewCatIds : \A k \in 1..Len(cats) : cats[k].id # c }

\* The record of a request on categories.
CatCall(op, category_id, before, out, status) ==
    [ op |-> op, categoryId |-> category_id, before |-> before, out |-> out,
      status |-> status ]

\* POST /api/categories: the document with the body appended.
create_category(state, body) ==
    [ state EXCEPT !.categories = Append(@, body) ]

\* The document after the replace-by-id loop of PUT /api/categories/<id>.
update_category(state, category_id, body) ==
    LET i == find_category(category_id, state.categories)
    IN  IF i = 0 THEN state
        ELSE [ state EXCEPT !.categories[i] = merge(@, body) ]

\* Faulty variant: deleting a category also takes it off every item.
delete_category_cascade(state, category_id) ==
    [ categories |-> SelectSeq(state.categories, LAMBDA c : c.id # category_id),
      items |-> [ k \in 1..Len(state.items) |->
                    [ state.items[k] EXCEPT !.categoryIds = @ \ { category_id } ] ] ]

\* DELETE /api/categories/<id>: the document without the category.
delete_category(state, category_id) ==
    [ state EXCEPT
        !.categories = SelectSeq(@, LAMBDA c : c.id # category_id) ]

\* DELETE /api/items/<id>: the document without the item.
delete_item(state, item_id) ==
    [ state EXCEPT !.items = SelectSeq(@, LAMBDA i : i.id # item_id) ]

CreateCategory ==
    /\ calls < MaxCalls
    /\ fresh_category_ids(categories) # {}
    /\ \E parent_id \in { None, "C" } :
        LET id == CHOOSE c \in fresh_category_ids(categories) : TRUE
            state == State(categories, items)
            out == create_category(state, Category(id, parent_id))
        IN  /\ categories' = out.categories
            /\ items' = out.items
            /\ last' = CatCall("createCategory", id, state, out, 201)
    /\ calls' = calls + 1
    /\ UNCHANGED <<treeVars, storeVars>>

\* The body renames the category or moves it to the root.
UpdateCategory ==
    /\ calls < MaxCalls
    /\ \E category_id \in CatIds,
          body \in { [ name |-> "n" ], [ parentId |-> None ] } :
        LET state == State(categories, items)
            out == update_category(state, category_id, body)
            updated == find_category(category_id, categories) # 0
        IN  /\ categories' = out.categories
            /\ items' = out.items
            /\ last' = CatCall("updateCategory", category_id, state, out,
                               IF updated THEN 200 ELSE 404)
    /\ calls' = calls + 1
    /\ UNCHANGED <<treeVars, storeVars>>

DeleteCategory ==
    /\ calls < MaxCalls
    /\ \E category_id \in CatIds :
        LET state == State(categories, items)
            out == delete_category(state, category_id)
            deleted == Len(out.categories) < Len(categories)
        IN  /\ categories' = IF deleted THEN out.categories ELSE categories
            /\ items' = IF deleted THEN out.items ELSE items
            /\ last' = CatCall("deleteCategory", category_id, state,
                               IF deleted THEN out ELSE state,
                               IF deleted THEN 200 ELSE 404)
    /\ calls' = calls + 1
    /\ UNCHANGED <<treeVars, storeVars>>

DeleteItem ==
    /\ calls < MaxCalls
    /\ \E item_id \in { items[k].id : k \in 1..Len(items) } \cup { NoSuchId } :
        LET state == State(categories, items)
            out == delete_item(state, item_id)
            deleted == Len(out.items) < Len(items)
        IN  /\ categories' = IF deleted THEN out.categories ELSE categories
            /\ items' = IF deleted THEN out.items ELSE items
            /\ last' = CatCall("deleteItem", item_id, state,
                               IF deleted THEN out ELSE state,
                               IF deleted THEN 200 ELSE 404)
    /\ calls' = calls + 1
    /\ UNCHANGED <<treeVars, storeVars>>

\* A document of three categories in a chain and two items.
InitDoc ==
    /\ categories = Chain
    /\ items = << Body(1, "text", "a", { "A", "B", "C" }),
                  Body(2, "file", "b", { "A" }) >>
    /\ last = NameCall("init", NoId, None, None, NoId, items, items, None, 200)
    /\ calls = 0
    /\ IdleTree
    /\ IdleStore

NextDoc ==
    \/ CreateItem
    \/ UpdateItem
    \/ DeleteItem
    \/ AddTags
    \/ ToggleCategory
    \/ BatchEdit
    \/ BatchDelete
    \/ RemoveCategoryFromItem
    \/ BatchRemoveCategories
    \/ CreateCategory
    \/ UpdateCategory
    \/ DeleteCategory

SpecDoc == InitDoc /\ [][NextDoc]_vars

ItemOps ==
    { "createItem", "updateItem", "deleteItem", "addTags", "toggle",
      "batchEdit", "batchDelete", "removeCategory", "batchRemove" }

CategoryOps == { "createCategory", "updateCategory", "deleteCategory" }

\* C15: nothing cascades between categories and items.  Every operation on
\* items leaves the category list as it was, and every operation on
\* categories leaves the item list as it was, the categoryIds that name a
\* deleted category included.
C15_NoCascade ==
    [][ /\ last'.op \in ItemOps => categories' = categories
        /\ last'.op \in CategoryOps => items' = items ]_vars

\* A category has been deleted and an item still carries its id.
C15_Witness ==
    /\ last.op = "deleteCategory"
    /\ last.status = 200
    /\ \A k \in 1..Len(categories) : categories[k].id # last.categoryId
    /\ \E k \in 1..Len(items) : last.categoryId \in items[k].categoryIds

-----------------------------------------------------------------------------
(* DocumentStore: load_state, save_state and the requests that write *)

\* The two write requests.
Reqs == { 1, 2 }

\* What the requests do to the document they loaded: POST /api/categories
\* appends to the category list in place, POST /api/upload inserts into the
\* item list in place, DELETE /api/categories/root_1 binds a new list.
Kinds == { "createCategory", "upload", "deleteCategory" }

INITIAL_STATE ==
    [ categories |-> << Category("root_1", None), Category("root_2", None) >>,
      items |-> << >>,
      selectedCategoryIds |-> << >> ]

\* A document saved by an earlier run.
StoredState ==
    [ categories |-> << Category("root_1", None) >>,
      items |-> << [ id |-> "i0", categoryIds |-> { "root_1" } ] >>,
      selectedCategoryIds |-> << >> ]

\* A path on disk: no file, a file holding a whole JSON document, or a file
\* that is empty or holds part of a document.
Absent == [ kind |-> "absent" ]

Json(doc) == [ kind |-> "json", doc |-> doc ]

Truncated == [ kind |-> "truncated" ]

\* A request: where its handler is, the dict load_state gave it (state), the
\* keys of that dict whose lists are the lists of INITIAL_STATE itself
\* (shared; dict.copy() copies the dict, not its lists), the path its open
\* file handle now names (fd), the document it dumped (doc) and its answer.
Request(pc, kind, state, shared, fd, doc, status) ==
    [ pc |-> pc, kind |-> kind, state |-> state, shared |-> shared, fd |-> fd,
      doc |-> doc, status |-> status ]

\* The dict as the handler reads it.
view(req, init) ==
    [ key \in DOMAIN req.state |->
        IF key \in req.shared THEN init[key] ELSE req.state[key] ]

\* load_json_file: the document in the file, or the default when there is
\* no file or json.load raises.
load_json_file(file, default) ==
    IF file.kind = "json" THEN file.doc ELSE default

\* load_state as seen from outside: the document it returns now.  The
\* repairs of load_state change nothing here: every document has its lists.
load_state(d, init) == load_json_file(d.file, init)

\* The body of request r.
category_body(r) == Category(IF r = 1 THEN "c1" ELSE "c2", None)

upload_body(r) ==
    [ id |-> IF r = 1 THEN "i1" ELSE "i2", categoryIds |-> { "root_1" } ]

\* HTTPServer handles one request at a time: serve_forever comes back for
\* the next request when the handler of this one has returned.
InHandler(req) == req.pc \in { "loaded", "computed", "opened", "dumped" }

\* Faulty variant: a server that gives every request its own thread.
server_free_threaded(rs) == TRUE

server_free(rs) == \A r \in Reqs : ~InHandler(rs[r])

\* A client sends a request.
Arrive ==
    /\ \E r \in Reqs, kind \in Kinds :
            /\ reqs[r].pc = "idle"
            /\ reqs' = [ reqs EXCEPT ![r].pc = "pending", ![r].kind = kind ]
            /\ hist' = [ hist EXCEPT !.overlap =
                           @ \/ \E q \in Reqs : InHandler(reqs[q]) ]
            /\ UNCHANGED <<disk, initial>>
    /\ UNCHANGED <<categories, items, last, calls, treeVars>>

\* state = data_store.load_state()
LoadState ==
    /\ \E r \in Reqs :
            /\ reqs[r].pc = "pending"
            /\ server_free(reqs)
            /\ reqs' = [ reqs EXCEPT
                           ![r].pc = "loaded",
                           ![r].state = load_json_file(disk.file, initial),
                           ![r].shared = IF disk.file.kind = "json" THEN {}
                                         ELSE DOMAIN initial ]
            /\ UNCHANGED <<disk, initial, hist>>
    /\ UNCHANGED <<categories, items, last, calls, treeVars>>

\* The handler changes the dict it loaded.  append and insert change the
\* list that is there; the delete handler binds a new list and answers 404
\* without saving when nothing was deleted.
Compute ==
    /\ \E r \in Reqs :
            LET req == reqs[r]
                now == view(req, initial)
                key == IF req.kind = "upload" THEN "items" ELSE "categories"
                list == IF req.kind = "createCategory"
                        THEN Append(now.categories, category_body(r))
                        ELSE IF req.kind = "upload"
                        THEN << upload_body(r) >> \o now.items
                        ELSE SelectSeq(now.categories, LAMBDA c : c.id # "root_1")
                in_place == req.kind # "deleteCategory"
                found == Len(list) < Len(now.categories)
            IN  /\ req.pc = "loaded"
                /\ initial' = IF in_place /\ key \in req.shared
                              THEN [ initial EXCEPT ![key] = list ]
                              ELSE initial
                /\ reqs' = [ reqs EXCEPT
                     ![r].state = IF in_place /\ key \in req.shared THEN @
                                  ELSE [ @ EXCEPT ![key] = list ],
                     ![r].shared = IF in_place THEN @ ELSE @ \ { key },
                     ![r].pc = IF in_place \/ found THEN "computed" ELSE "done",
                     ![r].status = IF in_place \/ found THEN @ ELSE 404 ]
                /\ UNCHANGED <<disk, hist>>
    /\ UNCHANGED <<categories, items, last, calls, treeVars>>

\* atomic_write: open(temp_file, 'w') makes the file or empties it.
OpenTemp ==
    /\ \E r \in Reqs :
            /\ reqs[r].pc = "computed"
            /\ disk' = [ disk EXCEPT !.tmp = Truncated ]
            /\ reqs' = [ reqs EXCEPT ![r].pc = "opened", ![r].fd = "tmp" ]
            /\ UNCHANGED <<initial, hist>>
    /\ UNCHANGED <<categories, items, last, calls, treeVars>>

\* atomic_write: json.dump writes the dict through the open handle, or
\* raises; then the temp file is removed if it is there, save_state answers
\* False and the handler answers 500.
Dump ==
    /\ \E r \in Reqs, ok \in BOOLEAN :
            LET doc == view(reqs[r], initial)
            IN  /\ reqs[r].pc = "opened"
                /\ disk' = IF ok THEN [ disk EXCEPT ![reqs[r].fd] = Json(doc) ]
                           ELSE [ disk EXCEPT !.tmp = Absent ]
                /\ reqs' = [ reqs EXCEPT
                               ![r].pc = IF ok THEN "dumped" ELSE "done",
                               ![r].doc = doc,
                               ![r].status = IF ok THEN @ ELSE 500 ]
                /\ UNCHANGED <<initial, hist>>
    /\ UNCHANGED <<categories, items, last, calls, treeVars>>

\* atomic_write: os.replace / os.rename puts the temp file in the place of
\* the data file; both raise when the temp file is gone.  save_state
\* answers True and the handler answers 200 or 201.
Replace ==
    /\ \E r \in Reqs :
            LET there == disk.tmp.kind # "absent"
            IN  /\ reqs[r].pc = "dumped"
                /\ disk' = IF there THEN [ file |-> disk.tmp, tmp |-> Absent ]
                           ELSE disk
                /\ reqs' = [ q \in Reqs |->
                     IF q = r
                     THEN [ reqs[q] EXCEPT !.pc = "done",
                                           !.status = IF ~there THEN 500
                                                   ELSE IF reqs[q].kind = "deleteCategory"
                                                   THEN 200 ELSE 201 ]
                     ELSE IF there /\ reqs[q].pc = "opened"
                          THEN [ reqs[q] EXCEPT !.fd = "file" ]
                          ELSE reqs[q] ]
                /\ hist' = IF there
                           THEN [ hist EXCEPT !.written = reqs[r].doc,
                                              !.saver = r,
                                              !.wrote[r] = disk.tmp ]
                           ELSE hist
                /\ UNCHANGED initial
    /\ UNCHANGED <<categories, items, last, calls, treeVars>>

\* The server has just started; the data file is not there yet, or it holds
\* the document of an earlier run.  hist keeps what the checks need to
\* know of the past: the document of the latest save that answered True
\* (written; NoDocument before the first), who made it (saver), what each
\* save put in the data file (wrote), and whether a request arrived while
\* another was being handled (overlap).
NoDocument == [ categories |-> << >> ]

InitStore ==
    /\ categories = << >>
    /\ items = << >>
    /\ last = None
    /\ calls = 0
    /\ IdleTree
    /\ disk \in { [ file |-> Absent, tmp |-> Absent ],
                  [ file |-> Json(StoredState), tmp |-> Absent ] }
    /\ initial = INITIAL_STATE
    /\ reqs = [ r \in Reqs |->
                  Request("idle", None, INITIAL_STATE, {}, "tmp", NoDocument, 0) ]
    /\ hist = [ written |-> IF disk.file.kind = "json" THEN disk.file.doc
                            ELSE NoDocument,
                saver |-> 0,
                wrote |-> [ r \in Reqs |-> Absent ],
                overlap |-> FALSE ]

NextStore ==
    \/ Arrive
    \/ LoadState
    \/ Compute
    \/ OpenTemp
    \/ Dump
    \/ Replace

SpecStore == InitStore /\ [][NextStore]_vars

C18_LoadReturnsLastWritten ==
    server_free(reqs) =>
        load_state(disk, initial) =
            IF hist.written # NoDocument THEN hist.written ELSE INITIAL_STATE

====
